---- MODULE Spec2Model ----
(***************************************************************************)
(* Model of the stock search library (search/src): the exchange           *)
(* classifier, the candidate conversions of the five providers, the       *)
(* generic Search::search selection loop and the response scanners of     *)
(* the Cfi, Sina and SoHu providers; and of the two batch runners, the    *)
(* command line (cli/src/main.rs) and the window (gui/src/main.rs).       *)
(*                                                                         *)
(* Strings are sequences of characters; a character is a one-element      *)
(* name.  Rust's str::len and str::get count UTF-8 bytes, so every        *)
(* character carries its encoded width (Utf8Len).                         *)
(***************************************************************************)
EXTENDS Naturals, Integers, Sequences, FiniteSets, TLC

VARIABLES
    pc,          \* position of the operation under way
    val,         \* classifier: the code string handed to guess_from_stock
    exchange,    \* classifier: the exchange field of the Stock handed to normalize
    guessed,     \* classifier: result of Exchange::guess_from_stock(val)
    renders,     \* classifier: results of the successive Stock::normalize calls
    tool,        \* search: the provider (Tool) the search runs on
    outputs,     \* search: the Result<Vec<Output>> returned by search_all
    idx,         \* search: position of the iterator of `for output in outputs`
                 \* (the next element it yields)
    hongkong,    \* search: the local `hongkong`, an Option<Stock> as a
                 \* sequence of no or one Stock
    stock,       \* search: result of the latest output.try_into()
    result,      \* search: what Search::search returned
    text,        \* cfi: the response body, as its sequence of lexical items
    offset,      \* cfi: ctx.offset(), counted in lexical items
    curr_code,   \* cfi: Option<&str>, a sequence of no or one string
    curr_name,   \* cfi: Option<&str>, likewise
    cfi_outputs, \* cfi: the `outputs` vector of Cfi::search_all
    records,     \* sina: the records the service put into the response
    body,        \* sina: the quoted value of the response body, as characters
    suggests,    \* sina: result of Sina::search_all
    runner,      \* batch: which program runs the batch, "cli" or "gui"
    batch_tool,  \* batch: the provider selected (Cli.tool, Gui.tool_sel)
    keywords,    \* batch: how many keywords were given; keyword k is the number k
    answers,     \* batch: what Search::search gives for each keyword
    tasks,       \* batch: one record per batch started, in start order: the
                 \* position and locals of its future and what it did so far
    task_handle, \* gui: Gui.task_handle, no or one batch number
    chan,        \* gui: messages a batch sent that update has not handled yet
    infobar,     \* gui: Gui.infobar
    content,     \* gui: Gui.content, as its lines
    stocks,      \* gui: Gui.stocks
    printed,     \* cli: the lines written to stdout
    ret,         \* cli: what Searcher::invoke returned
    sohu_text,   \* sohu: the response body, as characters
    sohu_json,   \* sohu: the Result of the JSONP parser, the slice it took
    sohu_array,  \* sohu: the `result` array of the parsed JSON
    sohu_idx,    \* sohu: position of the iterator of `for item in array`
    sohu_outputs, \* sohu: the `outputs` vector of SoHu::search_all
    sohu_result  \* sohu: what SoHu::search_all returned

vars == <<pc, val, exchange, guessed, renders, tool, outputs, idx, hongkong,
          stock, result, text, offset, curr_code, curr_name, cfi_outputs,
          records, body, suggests, runner, batch_tool, keywords, answers,
          tasks, task_handle, chan, infobar, content, stocks, printed, ret,
          sohu_text, sohu_json, sohu_array, sohu_idx, sohu_outputs,
          sohu_result>>

classifyVars == <<val, exchange, guessed, renders>>
searchVars == <<tool, outputs, idx, hongkong, stock, result>>
cfiVars == <<text, offset, curr_code, curr_name, cfi_outputs>>
sinaVars == <<records, body, suggests>>
batchVars == <<runner, batch_tool, keywords, answers, tasks, task_handle, chan,
               infobar, content, stocks, printed, ret>>
sohuVars == <<sohu_text, sohu_json, sohu_array, sohu_idx, sohu_outputs,
              sohu_result>>

\* Option::None, and the Err(..) values the claims tell apart.
None == "None"
\* Result::Ok(v) and Result::Err(e); NoResult stands for "not returned yet".
Ok(v) == [ok |-> TRUE, val |-> v]
Err(e) == [ok |-> FALSE, err |-> e]
NoResult == Err(None)
ErrNotValid == "Err: Not a valid stock number"
ErrNotSupport == "Err: Not support exchange or market"
ErrRequest == "Err: request or parse failure"
ErrNotFound == "Err: Can not find valid stock number in results"

(***************************************************************************)
(* Characters and strings                                                  *)
(***************************************************************************)
\* One non-ASCII character (U+6D66, three bytes in UTF-8) stands for the
\* Chinese text the providers return.
NonAscii == "U+6D66"
Digits == {"0", "3", "4", "6", "7", "8"}
Ascii == Digits \cup {"a"}
Chars == Ascii \cup {NonAscii}

\* char::len_utf8
Utf8Len(c) == IF c = NonAscii THEN 3 ELSE 1

RECURSIVE StrLen(_)
\* str::len: the length in bytes
StrLen(s) == IF s = <<>> THEN 0 ELSE Utf8Len(Head(s)) + StrLen(Tail(s))

\* str::get(0..2): the first two bytes when byte 2 is a character boundary
\* inside the string, None otherwise
StrGet02(s) ==
    IF \E k \in 0..Len(s) : StrLen(SubSeq(s, 1, k)) = 2
    THEN LET k == CHOOSE j \in 0..Len(s) : StrLen(SubSeq(s, 1, j)) = 2
         IN  SubSeq(s, 1, k)
    ELSE None

(***************************************************************************)
(* Exchange classifier (lib.rs)                                            *)
(***************************************************************************)
Exchange == {"ShangHai", "ShenZhen", "BeiJing", "HongKong"}

\* impl Valid for HongKong
HongKongValid(s) == StrLen(s) = 5

\* impl Valid for ShangHai
ShangHaiValid(s) == StrGet02(s) \in {<<"6", "8">>, <<"6", "0">>}

\* impl Valid for ShenZhen
ShenZhenValid(s) == StrGet02(s) \in {<<"0", "0">>, <<"3", "0">>}

BeiJingValidNo43(s) ==
    StrGet02(s) \in {<<"8", "8">>, <<"8", "7">>, <<"8", "3">>}
\* impl Valid for BeiJing
BeiJingValid(s) ==
    StrGet02(s) \in {<<"8", "8">>, <<"8", "7">>, <<"8", "3">>, <<"4", "3">>}

GuessShangHaiFirst(s) ==
    IF ShangHaiValid(s) THEN "ShangHai"
    ELSE IF HongKongValid(s) THEN "HongKong"
    ELSE IF ShenZhenValid(s) THEN "ShenZhen"
    ELSE IF BeiJingValid(s) THEN "BeiJing"
    ELSE ErrNotValid
\* Exchange::guess_from_stock
guess_from_stock(s) ==
    IF HongKongValid(s) THEN "HongKong"
    ELSE IF ShangHaiValid(s) THEN "ShangHai"
    ELSE IF ShenZhenValid(s) THEN "ShenZhen"
    ELSE IF BeiJingValid(s) THEN "BeiJing"
    ELSE ErrNotValid

\* impl Format for ShangHai / ShenZhen / BeiJing / HongKong
ShangHaiFormat(s) == <<"1">> \o s
ShenZhenFormat(s) == <<"0">> \o s
BeiJingFormat(s) == <<"8">> \o s
HongKongFormat(s) == <<"5">> \o s

normalizeSwapped(e, s) ==
    CASE e = "ShangHai" -> ShenZhenFormat(s)
      [] e = "ShenZhen" -> ShangHaiFormat(s)
      [] e = "BeiJing" -> BeiJingFormat(s)
      [] e = "HongKong" -> HongKongFormat(s)
\* Stock::normalize, of a Stock with exchange e and code s
normalize(e, s) ==
    CASE e = "ShangHai" -> ShangHaiFormat(s)
      [] e = "ShenZhen" -> ShenZhenFormat(s)
      [] e = "BeiJing" -> BeiJingFormat(s)
      [] e = "HongKong" -> HongKongFormat(s)

(***************************************************************************)
(* Idle values of the variable groups a specification does not use         *)
(***************************************************************************)
ClassifyIdle == val = <<>> /\ exchange = None /\ guessed = None /\ renders = <<>>
SearchIdle ==
    /\ tool = None /\ outputs = NoResult /\ idx = 0
    /\ hongkong = <<>> /\ stock = NoResult /\ result = NoResult
CfiIdle ==
    /\ text = <<>> /\ offset = 0 /\ curr_code = <<>> /\ curr_name = <<>>
    /\ cfi_outputs = <<>>
SinaIdle == records = <<>> /\ body = <<>> /\ suggests = NoResult
SoHuIdle ==
    /\ sohu_text = <<>> /\ sohu_json = NoResult /\ sohu_array = <<>>
    /\ sohu_idx = 0 /\ sohu_outputs = <<>> /\ sohu_result = NoResult
\* String::default() in Gui.infobar
EmptyInfobar == [what |-> "", k |-> 0]
BatchIdle ==
    /\ runner = None /\ batch_tool = None /\ keywords = 0 /\ answers = <<>>
    /\ tasks = <<>> /\ task_handle = <<>> /\ chan = <<>>
    /\ infobar = EmptyInfobar
    /\ content = <<>> /\ stocks = <<>> /\ printed = <<>> /\ ret = NoResult

(***************************************************************************)
(* SpecClassify: guess_from_stock and normalize applied to bounded inputs  *)
(***************************************************************************)
MaxCodeLen == 6
MaxCalls == 2

\* Characters after the second only count through their width and, for the
\* claims, through being a digit or not.
TailChars == {"0", "a", NonAscii}

CodesOfLen(n) ==
    LET np == IF n < 2 THEN n ELSE 2
    IN  {[i \in 1..n |-> IF i <= np THEN p[i] ELSE t[i - np]] :
            p \in [1..np -> Chars], t \in [1..(n - np) -> TailChars]}
Codes == UNION {CodesOfLen(n) : n \in 0..MaxCodeLen}

InitClassify ==
    /\ pc = "start"
    /\ val \in Codes
    /\ exchange \in Exchange
    /\ guessed = None
    /\ renders = <<>>
    /\ SearchIdle /\ CfiIdle /\ SinaIdle /\ BatchIdle /\ SoHuIdle

\* a call of Exchange::guess_from_stock(val)
GuessFromStock ==
    /\ pc = "start"
    /\ guessed' = guess_from_stock(val)
    /\ pc' = "guessed"
    /\ UNCHANGED <<val, exchange, renders, searchVars, cfiVars, sinaVars, batchVars,
                   sohuVars>>

\* a call of Stock { code: val, exchange }.normalize()
Normalize ==
    /\ pc \in {"start", "guessed"}
    /\ Len(renders) < MaxCalls
    /\ renders' = Append(renders, normalize(exchange, val))
    /\ UNCHANGED <<pc, val, exchange, guessed, searchVars, cfiVars, sinaVars,
                   batchVars, sohuVars>>

NextClassify == GuessFromStock \/ Normalize

SpecClassify == InitClassify /\ [][NextClassify]_vars

(***************************************************************************)
(* Claims on the classifier                                                *)
(***************************************************************************)
IsDigits(s) == \A i \in 1..Len(s) : s[i] \in Digits
IsSixDigit(s) == Len(s) = 6 /\ IsDigits(s)
StartsWith(s, ps) == Len(s) >= 2 /\ <<s[1], s[2]>> \in ps
ShangHaiPrefixes == {<<"6", "8">>, <<"6", "0">>}
ShenZhenPrefixes == {<<"0", "0">>, <<"3", "0">>}
BeiJingPrefixes == {<<"8", "8">>, <<"8", "7">>, <<"8", "3">>, <<"4", "3">>}
AllPrefixes == ShangHaiPrefixes \cup ShenZhenPrefixes \cup BeiJingPrefixes

SixDigitRules ==
    IsSixDigit(val) =>
        /\ StartsWith(val, ShangHaiPrefixes) => guessed = "ShangHai"
        /\ StartsWith(val, ShenZhenPrefixes) => guessed = "ShenZhen"
        /\ StartsWith(val, BeiJingPrefixes) => guessed = "BeiJing"

\* C3 as stated: guess_from_stock answers HongKong for every code of five
\* characters, whatever the characters are, and ShangHai / ShenZhen /
\* BeiJing for the six-digit codes with the listed prefixes.
OrigC3_FiveCharactersHongKong ==
    pc = "guessed" =>
        /\ Len(val) = 5 => guessed = "HongKong"
        /\ SixDigitRules

\* C3 as amended: guess_from_stock answers HongKong for every code whose
\* UTF-8 length is five bytes (so for every five-character ASCII code),
\* whatever its content and before any prefix rule is tried, and ShangHai /
\* ShenZhen / BeiJing for the six-digit codes with the listed prefixes.
ThmC3_FiveBytesHongKongFirst ==
    pc = "guessed" =>
        /\ StrLen(val) = 5 => guessed = "HongKong"
        /\ (Len(val) = 5 /\ \A i \in 1..5 : val[i] \in Ascii)
               => guessed = "HongKong"
        /\ SixDigitRules

WitC3_FiveDigitsWithShangHaiPrefix ==
    /\ pc = "guessed"
    /\ Len(val) = 5 /\ IsDigits(val)
    /\ StartsWith(val, ShangHaiPrefixes)
    /\ guessed = "HongKong"

\* C4 as stated: guess_from_stock fails for every input that is neither a
\* five-character code nor a six-digit code with one of the listed prefixes.
OrigC4_AllOtherInputsFail ==
    (pc = "guessed" /\ Len(val) # 5
        /\ ~(IsSixDigit(val) /\ StartsWith(val, AllPrefixes)))
    => guessed = ErrNotValid

\* C4 as amended: guess_from_stock fails exactly for the inputs that are not
\* five bytes long and do not start with one of the eight listed two-digit
\* prefixes; the length of a prefixed input and the characters after its
\* prefix play no part.
ThmC4_FailsIffNoRuleMatches ==
    pc = "guessed" =>
        (guessed = ErrNotValid
            <=> (StrLen(val) # 5 /\ ~StartsWith(val, AllPrefixes)))

WitC4_UnclassifiableSixDigit ==
    /\ pc = "guessed"
    /\ IsSixDigit(val)
    /\ guessed = ErrNotValid

PrefixDigit(e) ==
    CASE e = "ShangHai" -> "1"
      [] e = "ShenZhen" -> "0"
      [] e = "BeiJing" -> "8"
      [] e = "HongKong" -> "5"

\* C5: every call of normalize returns one prefix digit, fixed by the
\* exchange tag alone (ShangHai 1, ShenZhen 0, BeiJing 8, HongKong 5),
\* followed by the unchanged code, so len(code)+1 characters, and repeated
\* calls on the same stock return the same string.
ThmC5_NormalizePrependsTagDigit ==
    \A i \in 1..Len(renders) :
        /\ Len(renders[i]) = Len(val) + 1
        /\ StrLen(renders[i]) = StrLen(val) + 1
        /\ renders[i][1] = PrefixDigit(exchange)
        /\ SubSeq(renders[i], 2, Len(renders[i])) = val
        /\ renders[i] = renders[1]

WitC5_RenderedTwice ==
    /\ Len(renders) >= 2
    /\ exchange = "ShenZhen"
    /\ val = <<"6", "0", "0", "0", "0", "0">>
    /\ renders[2] = <<"0", "6", "0", "0", "0", "0", "0">>

(***************************************************************************)
(* Candidate conversions of the providers (impl TryFrom<Output> for Stock) *)
(***************************************************************************)
Tool == {"Sina", "CnInfo", "Cfi", "HeXun", "SoHu"}

\* struct Stock
Stock(name, code, exch) == [name |-> name, code |-> code, exchange |-> exch]

\* the tail shared by the conversions: Ok(Stock { name, code, exchange: exchange? })
StockOrErr(name, code, exch) ==
    IF exch \in Exchange THEN Ok(Stock(name, code, exch)) ELSE Err(exch)

TryFromSinaNormalized(v) ==
    LET exch == guess_from_stock(v.code)
    IN  IF exch \in Exchange
        THEN Ok(Stock(v.name, normalize(exch, v.code), exch))
        ELSE Err(exch)
\* sina.rs, cfi.rs, sohu.rs: Output { code, name }
TryFromSina(v) == StockOrErr(v.name, v.code, guess_from_stock(v.code))
TryFromCfi(v) == StockOrErr(v.name, v.code, guess_from_stock(v.code))
TryFromSoHu(v) == StockOrErr(v.name, v.code, guess_from_stock(v.code))

TYPE_HKE == "hke"
TYPE_SHJ == "shj"

TryFromCnInfoGuessOnly(v) ==
    StockOrErr(v.zwjc, v.code, guess_from_stock(v.code))
\* cninfo.rs: Output { code, zwjc, exchange } (exchange is the JSON field "type")
TryFromCnInfo(v) ==
    StockOrErr(v.zwjc, v.code,
               IF v.exchange = TYPE_HKE THEN "HongKong"
               ELSE guess_from_stock(v.code))

TryFromHexunGuessFallback(v) ==
    StockOrErr(v.name, v.code,
               IF v.marketcode = "a"
               THEN CASE v.orgcode = "SSE" -> "ShangHai"
                      [] v.orgcode = "SZSE" -> "ShenZhen"
                      [] v.orgcode = "BJSE" -> "BeiJing"
                      [] OTHER -> guess_from_stock(v.code)
               ELSE ErrNotSupport)
\* hexun.rs: Output { code, name, orgcode, marketcode }
TryFromHexun(v) ==
    StockOrErr(v.name, v.code,
               IF v.marketcode = "a"
               THEN CASE v.orgcode = "SSE" -> "ShangHai"
                      [] v.orgcode = "SZSE" -> "ShenZhen"
                      [] v.orgcode = "BJSE" -> "BeiJing"
                      [] OTHER -> ErrNotSupport
               ELSE ErrNotSupport)

\* output.try_into(), for the Output type of provider t
TryInto(t, v) ==
    CASE t = "Sina" -> TryFromSina(v)
      [] t = "Cfi" -> TryFromCfi(v)
      [] t = "SoHu" -> TryFromSoHu(v)
      [] t = "CnInfo" -> TryFromCnInfo(v)
      [] t = "HeXun" -> TryFromHexun(v)

(***************************************************************************)
(* SpecSearch: Search::search over the candidate lists of a provider       *)
(***************************************************************************)
MaxOutputs == 3

\* The name of the candidate at position i: i non-ASCII characters, so that
\* candidates are told apart by where the provider ranked them.
NameAt(i) == [k \in 1..i |-> NonAscii]

HongKongCode == <<"0", "0", "7", "0", "0">>
FiveDigitShangHaiPrefix == <<"6", "0", "0", "0", "0">>
ShangHaiCode == <<"6", "0", "0", "0", "0", "0">>
ShenZhenCode == <<"0", "0", "0", "0", "0", "0">>
BeiJingCode == <<"8", "3", "0", "0", "0", "0">>
UnknownCode == <<"7", "0", "0", "0", "0", "0">>

\* What a provider's record can hold besides its name.
RawOf(t) ==
    CASE t \in {"Sina", "Cfi", "SoHu"} ->
            [code : {HongKongCode, FiveDigitShangHaiPrefix, ShangHaiCode,
                     ShenZhenCode, BeiJingCode, UnknownCode}]
      [] t = "CnInfo" ->
            [code : {HongKongCode, ShangHaiCode, UnknownCode},
             exchange : {TYPE_HKE, TYPE_SHJ}]
      [] t = "HeXun" ->
            {r \in [code : {HongKongCode, ShangHaiCode},
                    orgcode : {"SSE", "SZSE", "BJSE", "HKEX"},
                    marketcode : {"a", "hk"}] :
                r.marketcode = "a" \/ r.orgcode = "SSE"}

\* The Output at position i built from the raw record r.
OutputAt(t, r, i) ==
    CASE t \in {"Sina", "Cfi", "SoHu"} -> [code |-> r.code, name |-> NameAt(i)]
      [] t = "CnInfo" ->
            [code |-> r.code, zwjc |-> NameAt(i), exchange |-> r.exchange]
      [] t = "HeXun" ->
            [code |-> r.code, name |-> NameAt(i), orgcode |-> r.orgcode,
             marketcode |-> r.marketcode]

OutputLists(t) ==
    UNION {{[i \in 1..n |-> OutputAt(t, rs[i], i)] : rs \in [1..n -> RawOf(t)]}
           : n \in 0..MaxOutputs}

InitSearch ==
    /\ pc = "start"
    /\ tool \in Tool
    /\ outputs = NoResult
    /\ idx = 0
    /\ hongkong = <<>>
    /\ stock = NoResult
    /\ result = NoResult
    /\ ClassifyIdle /\ CfiIdle /\ SinaIdle /\ BatchIdle /\ SoHuIdle

\* let outputs = self.search_all(input).await?; let mut hongkong = None;
SearchAll ==
    /\ pc = "start"
    /\ \/ /\ \E outs \in OutputLists(tool) : outputs' = Ok(outs)
          /\ idx' = 1
          /\ pc' = "loop"
          /\ UNCHANGED result
       \/ /\ outputs' = Err(ErrRequest)
          /\ result' = Err(ErrRequest)
          /\ pc' = "done"
          /\ UNCHANGED idx
    /\ UNCHANGED <<tool, hongkong, stock, classifyVars, cfiVars, sinaVars,
                   batchVars, sohuVars>>

SearchLoopLastHongKong ==
    /\ pc = "loop"
    /\ idx <= Len(outputs.val)
    /\ LET st == TryInto(tool, outputs.val[idx])
       IN  /\ stock' = st
           /\ IF st.ok /\ st.val.exchange # "HongKong"
              THEN /\ result' = Ok(st.val)
                   /\ pc' = "done"
                   /\ idx' = idx + 1
                   /\ UNCHANGED hongkong
              ELSE /\ hongkong' = IF st.ok THEN <<st.val>> ELSE hongkong
                   /\ idx' = idx + 1
                   /\ UNCHANGED <<pc, result>>
    /\ UNCHANGED <<tool, outputs, classifyVars, cfiVars, sinaVars, batchVars,
                   sohuVars>>
\* one iteration of `for output in outputs`
SearchLoop ==
    /\ pc = "loop"
    /\ idx <= Len(outputs.val)
    /\ LET st == TryInto(tool, outputs.val[idx])
       IN  /\ stock' = st
           /\ IF st.ok /\ st.val.exchange # "HongKong"
              THEN /\ result' = Ok(st.val)
                   /\ pc' = "done"
                   /\ idx' = idx + 1
                   /\ UNCHANGED hongkong
              ELSE /\ hongkong' = IF st.ok /\ hongkong = <<>>
                                  THEN <<st.val>> ELSE hongkong
                   /\ idx' = idx + 1
                   /\ UNCHANGED <<pc, result>>
    /\ UNCHANGED <<tool, outputs, classifyVars, cfiVars, sinaVars, batchVars,
                   sohuVars>>

SearchEndStopsAtReject ==
    /\ pc = "loop"
    /\ \/ idx > Len(outputs.val)
       \/ idx > 1 /\ ~stock.ok
    /\ result' = IF hongkong # <<>> THEN Ok(hongkong[1]) ELSE Err(ErrNotFound)
    /\ pc' = "done"
    /\ UNCHANGED <<tool, outputs, idx, hongkong, stock, classifyVars, cfiVars,
                   sinaVars, batchVars, sohuVars>>
\* hongkong.ok_or_else(|| eyre!("Can not find valid stock number in results"))
SearchEnd ==
    /\ pc = "loop"
    /\ idx > Len(outputs.val)
    /\ result' = IF hongkong # <<>> THEN Ok(hongkong[1]) ELSE Err(ErrNotFound)
    /\ pc' = "done"
    /\ UNCHANGED <<tool, outputs, idx, hongkong, stock, classifyVars, cfiVars,
                   sinaVars, batchVars, sohuVars>>

NextSearch == SearchAll \/ SearchLoop \/ SearchEnd

SpecSearch == InitSearch /\ [][NextSearch]_vars

(***************************************************************************)
(* Claims on Search::search and on the conversions                         *)
(***************************************************************************)
\* the conversion of the candidate at position i of the returned list
Converted(i) == TryInto(tool, outputs.val[i])
Positions == IF outputs.ok THEN 1..Len(outputs.val) ELSE {}
NonHongKongAt == {i \in Positions : Converted(i).ok
                                     /\ Converted(i).val.exchange # "HongKong"}
HongKongAt == {i \in Positions : Converted(i).ok
                                  /\ Converted(i).val.exchange = "HongKong"}
First(S) == CHOOSE i \in S : \A j \in S : i <= j

\* C1: when search_all returned a list, the search returns the first
\* candidate, in the provider's order, that converts to a stock outside
\* HongKong, whatever precedes it; when there is none, the first candidate
\* that converts to a HongKong stock.
ThmC1_FirstNonHongKongElseFirstHongKong ==
    (pc = "done" /\ outputs.ok) =>
        /\ NonHongKongAt # {}
              => result = Ok(Converted(First(NonHongKongAt)).val)
        /\ (NonHongKongAt = {} /\ HongKongAt # {})
              => result = Ok(Converted(First(HongKongAt)).val)

WitC1_NonHongKongAfterHongKongAndReject ==
    /\ pc = "done" /\ outputs.ok
    /\ Len(outputs.val) = 3
    /\ 1 \in HongKongAt
    /\ ~Converted(2).ok
    /\ 3 \in NonHongKongAt
    /\ result = Ok(Converted(3).val)

\* C2: the search fails with NotFoundError exactly when search_all returned
\* a list none of whose candidates converts; a candidate that fails to
\* convert never makes the search fail when another candidate converts, and
\* a failed search_all is returned as it is.
ThmC2_NotFoundIffNothingConverts ==
    pc = "done" =>
        /\ result = Err(ErrNotFound)
              <=> (outputs.ok /\ \A i \in Positions : ~Converted(i).ok)
        /\ (\E i \in Positions : Converted(i).ok) => result.ok
        /\ ~outputs.ok => result = outputs

WitC2_RejectedThenFound ==
    /\ pc = "done" /\ outputs.ok
    /\ Len(outputs.val) >= 2
    /\ ~Converted(1).ok
    /\ Converted(2).ok
    /\ result = Ok(Converted(2).val)

\* C9: a CnInfo candidate of type "hke" converts to a HongKong stock
\* whatever its code; a candidate of any other type converts to the exchange
\* guess_from_stock gives for its code and is rejected when that fails.
ThmC9_CnInfoExplicitHongKongFlag ==
    (tool = "CnInfo" /\ idx > 1) =>
        LET o == outputs.val[idx - 1]
            g == guess_from_stock(o.code)
        IN  /\ o.exchange = TYPE_HKE
                  => stock = Ok(Stock(o.zwjc, o.code, "HongKong"))
            /\ (o.exchange # TYPE_HKE /\ g \in Exchange)
                  => stock = Ok(Stock(o.zwjc, o.code, g))
            /\ (o.exchange # TYPE_HKE /\ g \notin Exchange) => ~stock.ok

WitC9_FlagOverridesGuess ==
    /\ tool = "CnInfo" /\ idx > 1
    /\ outputs.val[idx - 1].exchange = TYPE_HKE
    /\ guess_from_stock(outputs.val[idx - 1].code) = "ShangHai"
    /\ stock.ok /\ stock.val.exchange = "HongKong"

HexunOrg(o) ==
    CASE o = "SSE" -> "ShangHai"
      [] o = "SZSE" -> "ShenZhen"
      [] o = "BJSE" -> "BeiJing"

\* C10: a Hexun candidate converts exactly when its marketcode is "a" and its
\* orgcode is SSE, SZSE or BJSE, to ShangHai, ShenZhen or BeiJing; every
\* other candidate is rejected whatever its code, and a Hexun search never
\* holds or returns a HongKong stock.
ThmC10_HexunNeverGuesses ==
    tool = "HeXun" =>
        /\ idx > 1 =>
              LET o == outputs.val[idx - 1]
              IN  /\ stock.ok <=> (o.marketcode = "a"
                                    /\ o.orgcode \in {"SSE", "SZSE", "BJSE"})
                  /\ stock.ok
                        => stock.val = Stock(o.name, o.code, HexunOrg(o.orgcode))
        /\ hongkong = <<>>
        /\ result.ok => result.val.exchange # "HongKong"

WitC10_RejectedDespiteGuessableCode ==
    /\ tool = "HeXun" /\ idx > 1
    /\ outputs.val[idx - 1].marketcode = "a"
    /\ outputs.val[idx - 1].orgcode = "HKEX"
    /\ guess_from_stock(outputs.val[idx - 1].code) = "HongKong"
    /\ ~stock.ok

GuessingTools == {"Sina", "Cfi", "SoHu"}

\* C11: a Sina, Cfi or SoHu candidate converts exactly when guess_from_stock
\* succeeds on its code; the stock then carries that exchange and the
\* candidate's name and code as they are, no prefix added.  A candidate that
\* fails to convert is the only thing rejected: the scan goes on to the next
\* candidate.
ThmC11_GuessDecidesNameAndCodeKept ==
    (tool \in GuessingTools /\ idx > 1) =>
        LET o == outputs.val[idx - 1]
            g == guess_from_stock(o.code)
        IN  /\ stock.ok <=> g \in Exchange
            /\ stock.ok => stock.val = Stock(o.name, o.code, g)
            /\ ~stock.ok => /\ pc = "loop" \/ idx > Len(outputs.val)
                            /\ pc = "done" => result # stock

WitC11_RejectedThenConvertedUnprefixed ==
    /\ tool \in GuessingTools /\ idx = 3
    /\ guess_from_stock(outputs.val[1].code) \notin Exchange
    /\ guess_from_stock(outputs.val[2].code) = "ShangHai"
    /\ stock = Ok(Stock(outputs.val[2].name, outputs.val[2].code, "ShangHai"))
    /\ stock.val.code # normalize("ShangHai", stock.val.code)
    /\ result = stock

(***************************************************************************)
(* SpecCfi: the scan loop of Cfi::search_all (cfi.rs)                      *)
(***************************************************************************)
MaxItems == 6

\* The body as the scanner sees it.  At every offset exactly one of three
\* things happens: stock_code matches (">" six digits "</td>"), else
\* stock_name matches (";>" one or more non-ASCII characters "</td>"), else
\* ctx.inc(1) skips one character.  A lexical item is one such match or one
\* skipped character.
ItemKinds == {"code", "name", "other"}

\* The six digits matched at position i; every position has its own, so an
\* emitted code tells which token it came from.
CodeAt(i) == [k \in 1..6 |-> IF (i \div (2 ^ (6 - k))) % 2 = 1 THEN "3" ELSE "0"]

ItemAt(kind, i) ==
    CASE kind = "code" -> [kind |-> "code", s |-> CodeAt(i)]
      [] kind = "name" -> [kind |-> "name", s |-> NameAt(i)]
      [] kind = "other" -> [kind |-> "other", s |-> <<"a">>]

Texts ==
    UNION {{[i \in 1..n |-> ItemAt(ks[i], i)] : ks \in [1..n -> ItemKinds]}
           : n \in 0..MaxItems}

\* cfi.rs: Output { code, name }
CfiOutput(code, name) == [code |-> code, name |-> name]

InitCfi ==
    /\ pc = "scan"
    /\ text \in Texts
    /\ offset = 0
    /\ curr_code = <<>>
    /\ curr_name = <<>>
    /\ cfi_outputs = <<>>
    /\ ClassifyIdle /\ SearchIdle /\ SinaIdle /\ BatchIdle /\ SoHuIdle

CfiScanEmitsPartial ==
    /\ pc = "scan"
    /\ offset < Len(text)
    /\ LET item == text[offset + 1]
       IN  /\ offset' = offset + 1
           /\ IF item.kind = "code"
              THEN IF curr_code = <<>>
                   THEN /\ curr_code' = <<item.s>>
                        /\ curr_name' = <<>>
                        /\ UNCHANGED cfi_outputs
                   ELSE /\ cfi_outputs' =
                              Append(cfi_outputs,
                                     CfiOutput(curr_code[1],
                                               IF curr_name = <<>> THEN <<>>
                                               ELSE curr_name[1]))
                        /\ curr_code' = <<>>
                        /\ curr_name' = <<>>
              ELSE IF item.kind = "name"
              THEN /\ curr_name' = IF curr_code # <<>> THEN <<item.s>>
                                   ELSE curr_name
                   /\ UNCHANGED <<curr_code, cfi_outputs>>
              ELSE UNCHANGED <<curr_code, curr_name, cfi_outputs>>
    /\ UNCHANGED <<pc, text, classifyVars, searchVars, sinaVars, batchVars,
                   sohuVars>>
\* one iteration of `while !ctx.is_empty() && ctx.offset() < ctx.len()`
CfiScan ==
    /\ pc = "scan"
    /\ offset < Len(text)
    /\ LET item == text[offset + 1]
       IN  /\ offset' = offset + 1
           /\ IF item.kind = "code"
              THEN IF curr_code = <<>> \/ curr_name = <<>>
                   THEN /\ curr_code' = <<item.s>>
                        /\ curr_name' = <<>>
                        /\ UNCHANGED cfi_outputs
                   ELSE /\ cfi_outputs' =
                              Append(cfi_outputs,
                                     CfiOutput(curr_code[1], curr_name[1]))
                        /\ curr_code' = <<>>
                        /\ curr_name' = <<>>
              ELSE IF item.kind = "name"
              THEN /\ curr_name' = IF curr_code # <<>> THEN <<item.s>>
                                   ELSE curr_name
                   /\ UNCHANGED <<curr_code, cfi_outputs>>
              ELSE UNCHANGED <<curr_code, curr_name, cfi_outputs>>
    /\ UNCHANGED <<pc, text, classifyVars, searchVars, sinaVars, batchVars,
                   sohuVars>>

\* the loop ends and Ok(outputs) is returned
CfiReturn ==
    /\ pc = "scan"
    /\ offset >= Len(text)
    /\ pc' = "done"
    /\ UNCHANGED <<cfiVars, classifyVars, searchVars, sinaVars, batchVars,
                   sohuVars>>

NextCfi == CfiScan \/ CfiReturn

SpecCfi == InitCfi /\ [][NextCfi]_vars

(***************************************************************************)
(* Claims on the Cfi scanner                                               *)
(***************************************************************************)
IsCode(i) == text[i].kind = "code"
IsName(i) == text[i].kind = "name"
NoCodeBetween(i, j) == \A k \in (i + 1)..(j - 1) : ~IsCode(k)
NoNameBetween(i, j) == \A k \in (i + 1)..(j - 1) : ~IsName(k)

\* the code tokens followed by a name token before the next code token
PairedCodes ==
    {i \in 1..Len(text) :
        IsCode(i) /\ \E j \in (i + 1)..Len(text) : IsName(j) /\ NoCodeBetween(i, j)}

RECURSIVE Ascending(_)
\* the positions of S in document order
Ascending(S) ==
    IF S = {} THEN <<>>
    ELSE LET m == CHOOSE i \in S : \A j \in S : i <= j
         IN  <<m>> \o Ascending(S \ {m})

\* C6: search_all returns one candidate for every code token that is
\* followed by a name token before the next code token, in document order,
\* so k well-formed code-then-name rows give k candidates.
OrigC6_OneCandidatePerPairedCode ==
    pc = "done" =>
        /\ Len(cfi_outputs) = Cardinality(PairedCodes)
        /\ \A k \in 1..Len(cfi_outputs) :
              cfi_outputs[k].code = CodeAt(Ascending(PairedCodes)[k])

\* C7: every emitted candidate joins a code token with a name token that
\* follows it with no code token in between; of two code tokens with no name
\* token between them the first is never emitted and the second becomes the
\* pending code; a name token met while no code is pending leaves no trace.
ThmC7_NoPartialPair ==
    /\ \A k \in 1..Len(cfi_outputs) :
          \E i \in 1..offset, j \in 1..offset :
              /\ i < j /\ IsCode(i) /\ IsName(j) /\ NoCodeBetween(i, j)
              /\ cfi_outputs[k] = CfiOutput(CodeAt(i), NameAt(j))
    /\ \A i \in 1..offset, j \in 1..offset :
          (i < j /\ IsCode(i) /\ IsCode(j) /\ NoNameBetween(i, j)
               /\ NoCodeBetween(i, j))
          => /\ \A k \in 1..Len(cfi_outputs) : cfi_outputs[k].code # CodeAt(i)
             /\ j = offset => (curr_code = <<CodeAt(j)>> /\ curr_name = <<>>)
    /\ curr_code = <<>> => curr_name = <<>>

WitC7_FirstOfTwoCodesDropped ==
    /\ pc = "done"
    /\ Len(text) = 4
    /\ IsCode(1) /\ IsCode(2) /\ IsName(3) /\ IsCode(4)
    /\ cfi_outputs = <<CfiOutput(CodeAt(2), NameAt(3))>>

(***************************************************************************)
(* SpecSina: the parser and filter of Sina::search_all (sina.rs)           *)
(***************************************************************************)
MaxRecords == 3
MaxFields == 4

\* The text of field f of record r: r times "6" then f times "a", so that a
\* parsed field tells which record and which field it came from.
FieldAt(r, f) == [k \in 1..(r + f) |-> IF k <= r THEN "6" ELSE "a"]

\* A record of n fields at position r, all fields filled or (as the service
\* does) with an empty second field.
RecordsAt(r, n) ==
    {[f \in 1..n |-> FieldAt(r, f)]}
    \cup (IF n >= 2
          THEN {[f \in 1..n |-> IF f = 2 THEN <<>> ELSE FieldAt(r, f)]}
          ELSE {})

RECURSIVE RecordListsOfLen(_)
RecordListsOfLen(m) ==
    IF m = 0 THEN {<<>>}
    ELSE {Append(rs, rec) :
             rs \in RecordListsOfLen(m - 1),
             rec \in UNION {RecordsAt(m, n) : n \in 1..MaxFields}}

RecordLists == UNION {RecordListsOfLen(m) : m \in 1..MaxRecords}

RECURSIVE Join(_, _)
\* the pieces written one after the other with sep between them
Join(pieces, sep) ==
    IF Len(pieces) = 0 THEN <<>>
    ELSE IF Len(pieces) = 1 THEN pieces[1]
    ELSE pieces[1] \o <<sep>> \o Join(Tail(pieces), sep)

\* the value between the quotes of `var <name>="<value>"`
BodyOf(rs) == Join([r \in 1..Len(rs) |-> Join(rs[r], ",")], ";")

RECURSIVE Sep(_, _)
\* pat.sep(c) over s, pat being "as many characters other than ; , and the
\* quote as there are": the runs of s between the occurrences of c
Sep(s, c) ==
    IF \E k \in 1..Len(s) : s[k] = c
    THEN LET k == CHOOSE i \in 1..Len(s) :
                      s[i] = c /\ \A j \in 1..(i - 1) : s[j] # c
         IN  <<SubSeq(s, 1, k - 1)>> \o Sep(SubSeq(s, k + 1, Len(s)), c)
    ELSE <<s>>

\* fields.sep(";"): every record as the list of its fields
SinaParser(s) == LET recs == Sep(s, ";") IN [r \in 1..Len(recs) |-> Sep(recs[r], ",")]

\* sina.rs: Output { code, name }
SinaOutput(code, name) == [code |-> code, name |-> name]

RECURSIVE SinaCollectSecondField(_)
SinaCollectSecondField(vs) ==
    IF vs = <<>> THEN <<>>
    ELSE (IF Len(Head(vs)) >= 3
          THEN <<SinaOutput(Head(vs)[2], Head(vs)[1])>>
          ELSE <<>>) \o SinaCollectSecondField(Tail(vs))
RECURSIVE SinaCollect(_)
\* suggests.into_iter().filter(|v| v.len() >= 3).map(..).collect()
SinaCollect(vs) ==
    IF vs = <<>> THEN <<>>
    ELSE (IF Len(Head(vs)) >= 3
          THEN <<SinaOutput(Head(vs)[3], Head(vs)[1])>>
          ELSE <<>>) \o SinaCollect(Tail(vs))

InitSina ==
    /\ pc = "start"
    /\ records \in RecordLists
    /\ body = BodyOf(records)
    /\ suggests = NoResult
    /\ ClassifyIdle /\ SearchIdle /\ CfiIdle /\ BatchIdle /\ SoHuIdle

\* Sina::search_all: the request, then the parser and the filter
SinaSearchAll ==
    /\ pc = "start"
    /\ \/ suggests' = Ok(SinaCollect(SinaParser(body)))
       \/ suggests' = Err(ErrRequest)
    /\ pc' = "done"
    /\ UNCHANGED <<records, body, classifyVars, searchVars, cfiVars, batchVars,
                   sohuVars>>

NextSina == SinaSearchAll

SpecSina == InitSina /\ [][NextSina]_vars

(***************************************************************************)
(* Claims on the Sina parser                                               *)
(***************************************************************************)
\* the positions of the records that hold at least three fields
LongRecords == {r \in 1..Len(records) : Len(records[r]) >= 3}

\* C8: search_all returns one candidate for each record of at least three
\* fields and none for a shorter record, in the order of the records, the
\* name being the first field of the record and the code its third.
ThmC8_OneCandidatePerLongRecord ==
    (pc = "done" /\ suggests.ok) =>
        /\ Len(suggests.val) = Cardinality(LongRecords)
        /\ \A k \in 1..Len(suggests.val) :
              LET r == Ascending(LongRecords)[k]
              IN  /\ suggests.val[k].name = records[r][1]
                  /\ suggests.val[k].code = records[r][3]

WitC8_ShortRecordSkipped ==
    /\ pc = "done" /\ suggests.ok
    /\ Len(records) = 3
    /\ Len(records[1]) = 4 /\ Len(records[2]) = 2 /\ Len(records[3]) = 3
    /\ records[1][2] = <<>>
    /\ suggests.val = <<SinaOutput(FieldAt(1, 3), FieldAt(1, 1)),
                        SinaOutput(FieldAt(3, 3), FieldAt(3, 1))>>

(***************************************************************************)
(* SpecBatch: the batch runners, Searcher::invoke and search_with          *)
(* (cli/src/main.rs) and Gui::update, start_task and process               *)
(* (gui/src/main.rs)                                                       *)
(***************************************************************************)
MaxKeywords == 2
MaxBatches == 2
\* how many messages may wait for update at a time
MaxWaiting == 3

Runner == {"cli", "gui"}
\* Sina, whose Input has the request counter, and one provider whose Input
\* has the keyword only.
BatchTools == {"Sina", "CnInfo"}
\* What Search::search gives for a keyword.
Answer == {"Ok", ErrRequest, ErrNotFound}
\* What the probe of X::init gives: a success status, a transport error, or
\* a status that is not a success.
InitResult == {"Ok", "ErrTransport", "ErrStatus"}
\* The clock readings Input::default can take its counter from.
Millis == {0, 7}

\* The stock found for keyword k.
StockOf(k) == Stock(NameAt(k), ShangHaiCode, "ShangHai")

\* The future of a batch at its start: nothing awaited yet.
NewTask ==
    [pc |-> "init", init |-> None, k |-> 1, input |-> <<>>, success |-> FALSE,
     found |-> <<>>, log |-> <<>>, sent |-> <<>>,
     aborted_by |-> [by |-> None, batch |-> 0]]

SinaResetKeep(count) == count
\* sina.rs: fn reset(&mut self) { self.count += 1; }
SinaReset(count) == count + 1

\* <T::Input>::default()
DefaultInputs(t) ==
    IF t = "Sina" THEN {[key |-> 0, count |-> c] : c \in Millis}
    ELSE {[key |-> 0, count |-> 0]}

\* input.reset(): the counter of the Sina Input, nothing for the others
reset(t, in) == IF t = "Sina" THEN [in EXCEPT !.count = SinaReset(@)] ELSE in
\* input.set_keyword(keyword)
set_keyword(in, k) == [in EXCEPT !.key = k]

Event(ev, k, count) == [ev |-> ev, k |-> k, count |-> count]
Message(type, b, k, what) == [type |-> type, batch |-> b, k |-> k, what |-> what]

InitBatch ==
    /\ pc = "batch"
    /\ runner \in Runner
    /\ batch_tool \in BatchTools
    /\ keywords \in 0..MaxKeywords
    /\ answers \in [1..keywords -> Answer]
    /\ tasks = IF runner = "cli" THEN <<NewTask>> ELSE <<>>
    /\ task_handle = <<>>
    /\ chan = <<>>
    /\ infobar = EmptyInfobar
    /\ content = <<>>
    /\ stocks = <<>>
    /\ printed = IF runner = "cli" THEN <<[what |-> "count", k |-> keywords]>>
                 ELSE <<>>
    /\ ret = NoResult
    /\ ClassifyIdle /\ SearchIdle /\ CfiIdle /\ SinaIdle /\ SoHuIdle

cliVars == <<task_handle, chan, infobar, content, stocks>>
fixedVars == <<pc, runner, batch_tool, keywords, answers, classifyVars,
               searchVars, cfiVars, sinaVars, sohuVars>>

(* ------------------------------ the CLI ------------------------------- *)
\* invoke: X::init(builder) sends the probe
Invoke ==
    /\ runner = "cli"
    /\ tasks[1].pc = "init"
    /\ tasks' = [tasks EXCEPT ![1].pc = "probing",
                              ![1].log = Append(@, Event("probe", 0, 0))]
    /\ UNCHANGED <<printed, ret, cliVars, fixedVars>>

\* invoke: X::init(builder).await? ; search: <T::Input>::default()
InvokeInitDone ==
    /\ runner = "cli"
    /\ tasks[1].pc = "probing"
    /\ \E r \in InitResult :
          IF r = "Ok"
          THEN /\ \E in \in DefaultInputs(batch_tool) :
                     tasks' = [tasks EXCEPT ![1].pc = "loop", ![1].init = r,
                                            ![1].input = <<in>>]
               /\ UNCHANGED ret
          ELSE /\ tasks' = [tasks EXCEPT ![1].pc = "finished", ![1].init = r]
               /\ ret' = Err(r)
    /\ UNCHANGED <<printed, cliVars, fixedVars>>

\* search_with: println!, input.reset(), input.set_keyword(keyword),
\* tool.search(&input) sends the request
SearchWithIssue ==
    /\ runner = "cli"
    /\ tasks[1].pc = "loop"
    /\ tasks[1].k <= keywords
    /\ LET k == tasks[1].k
           in == set_keyword(reset(batch_tool, tasks[1].input[1]), k)
       IN  /\ printed' = Append(printed, [what |-> "try", k |-> k])
           /\ tasks' = [tasks EXCEPT
                 ![1].pc = "searching",
                 ![1].input = <<in>>,
                 ![1].log = Append(@, Event("issue", k, in.count))]
    /\ UNCHANGED <<ret, cliVars, fixedVars>>

\* search_with: stocks.push(tool.search(..).await?)
SearchWithReturn ==
    /\ runner = "cli"
    /\ tasks[1].pc = "searching"
    /\ LET k == tasks[1].k
       IN  IF answers[k] = "Ok"
           THEN /\ tasks' = [tasks EXCEPT
                      ![1].pc = "sleeping",
                      ![1].found = Append(@, StockOf(k)),
                      ![1].log = Append(@, Event("return", k, 0))]
                /\ UNCHANGED ret
           ELSE /\ tasks' = [tasks EXCEPT
                      ![1].pc = "finished",
                      ![1].log = Append(@, Event("return", k, 0))]
                /\ ret' = Err(answers[k])
    /\ UNCHANGED <<printed, cliVars, fixedVars>>

\* search_with: sleep(Duration::from_millis(self.delay as u64)).await
SearchWithWake ==
    /\ runner = "cli"
    /\ tasks[1].pc = "sleeping"
    /\ tasks' = [tasks EXCEPT
          ![1].pc = "loop",
          ![1].k = @ + 1,
          ![1].log = Append(@, Event("slept", tasks[1].k, 0))]
    /\ UNCHANGED <<printed, ret, cliVars, fixedVars>>

\* search_with: Ok(stocks); invoke: println!("{}", stock.normalize()) for
\* each stock, Ok(())
InvokePrint ==
    /\ runner = "cli"
    /\ tasks[1].pc = "loop"
    /\ tasks[1].k > keywords
    /\ LET found == tasks[1].found
       IN  printed' = printed \o
              [i \in 1..Len(found) |->
                  [what |-> normalize(found[i].exchange, found[i].code),
                   k |-> Len(found[i].name)]]
    /\ tasks' = [tasks EXCEPT ![1].pc = "finished", ![1].success = TRUE]
    /\ ret' = Ok("()")
    /\ UNCHANGED <<cliVars, fixedVars>>

(* ------------------------------ the GUI ------------------------------- *)
\* how many messages of batch b wait in q
RECURSIVE Waiting(_, _)
Waiting(q, b) ==
    IF q = <<>> THEN 0
    ELSE (IF Head(q).batch = b THEN 1 ELSE 0) + Waiting(Tail(q), b)

\* q without the last j messages of batch b
RECURSIVE DropLast(_, _, _)
DropLast(q, b, j) ==
    IF j = 0 \/ q = <<>> THEN q
    ELSE LET n == Len(q)
             front == SubSeq(q, 1, n - 1)
         IN  IF q[n].batch = b THEN DropLast(front, b, j - 1)
             ELSE Append(DropLast(front, b, j), q[n])

\* Dropping the handle of batch b aborts its stream (abort_on_drop): a future
\* that has not run to its end is never polled again.  What it sent and the
\* stream has not yielded yet (the newest of its messages) is never
\* delivered; what the stream yielded already is.
Aborted(ts, b, by) ==
    IF ts[b].pc = "finished" THEN ts
    ELSE [ts EXCEPT ![b].pc = "aborted", ![b].aborted_by = by]

\* the batches whose future is still polled
Running == {b \in DOMAIN tasks : tasks[b].pc \notin {"finished", "aborted"}}
\* the number of the latest batch started, 0 before the first
Latest == IF DOMAIN tasks = {} THEN 0
          ELSE CHOOSE b \in DOMAIN tasks : \A c \in DOMAIN tasks : c <= b
AfterAbort(q, b) == {DropLast(q, b, j) : j \in 0..Waiting(q, b)}

guiVars == <<printed, ret>>

\* update: Message::StartTask
StartTask ==
    /\ runner = "gui"
    /\ \/ /\ task_handle = <<>>
          /\ Latest < MaxBatches
          /\ content' = <<>>
          /\ stocks' = <<>>
          /\ tasks' = [b \in Running \cup {Latest + 1} |->
                          IF b = Latest + 1 THEN NewTask ELSE tasks[b]]
          /\ task_handle' = <<Latest + 1>>
          /\ UNCHANGED <<chan, infobar, guiVars, fixedVars>>
       \/ /\ task_handle # <<>>
          /\ UNCHANGED vars

\* update: Message::StopTask
StopTask ==
    /\ runner = "gui"
    /\ \/ /\ task_handle # <<>>
          /\ tasks' = Aborted(tasks, task_handle[1], [by |-> "StopTask", batch |-> 0])
          /\ chan' \in AfterAbort(chan, task_handle[1])
          /\ task_handle' = <<>>
          /\ UNCHANGED <<infobar, content, stocks, guiVars, fixedVars>>
       \/ /\ task_handle = <<>>
          /\ UNCHANGED vars

\* update: Message::TaskFinished(_) => self.task_handle = None
TaskFinished ==
    /\ runner = "gui"
    /\ chan # <<>>
    /\ Head(chan).type = "TaskFinished"
    /\ IF task_handle # <<>>
       THEN /\ tasks' = Aborted(tasks, task_handle[1],
                                [by |-> "TaskFinished",
                                 batch |-> Head(chan).batch])
            /\ chan' \in AfterAbort(Tail(chan), task_handle[1])
       ELSE /\ chan' = Tail(chan)
            /\ UNCHANGED tasks
    /\ task_handle' = <<>>
    /\ UNCHANGED <<infobar, content, stocks, guiVars, fixedVars>>

\* update: Message::ReportFailed((keyword, msg))
ReportFailed ==
    /\ runner = "gui"
    /\ chan # <<>>
    /\ Head(chan).type = "ReportFailed"
    /\ infobar' = [what |-> Head(chan).what, k |-> Head(chan).k]
    /\ content' = Append(content, [what |-> "failed", k |-> Head(chan).k])
    /\ chan' = Tail(chan)
    /\ UNCHANGED <<tasks, task_handle, stocks, guiVars, fixedVars>>

\* update: Message::AppendStock(stock)
AppendStock ==
    /\ runner = "gui"
    /\ chan # <<>>
    /\ Head(chan).type = "AppendStock"
    /\ content' = Append(content, [what |-> "stock", k |-> Head(chan).k])
    /\ stocks' = Append(stocks, StockOf(Head(chan).k))
    /\ chan' = Tail(chan)
    /\ UNCHANGED <<tasks, task_handle, infobar, guiVars, fixedVars>>

\* update: Message::SetInfobar(value)
SetInfobar ==
    /\ runner = "gui"
    /\ chan # <<>>
    /\ Head(chan).type = "SetInfobar"
    /\ infobar' = [what |-> Head(chan).what, k |-> Head(chan).k]
    /\ chan' = Tail(chan)
    /\ UNCHANGED <<tasks, task_handle, content, stocks, guiVars, fixedVars>>

\* send.send(m).await for each m of ms, in order
Send(b, ms) ==
    /\ Len(chan) + Len(ms) <= MaxWaiting
    /\ chan' = chan \o ms
    /\ UNCHANGED <<task_handle, infobar, content, stocks, guiVars, fixedVars>>

\* start_task: X::init(builder) sends the probe
TaskInit(b) ==
    /\ runner = "gui"
    /\ tasks[b].pc = "init"
    /\ tasks' = [tasks EXCEPT ![b].pc = "probing",
                              ![b].log = Append(@, Event("probe", 0, 0))]
    /\ Send(b, <<>>)

\* start_task: X::init(builder).await, try_unwrap; on an error the
\* SetInfobar of try_unwrap and TaskFinished(success); process:
\* <T::Input>::default()
TaskInitDoneFallsThrough(b) ==
    /\ runner = "gui"
    /\ tasks[b].pc = "probing"
    /\ \E r \in InitResult : \E in \in DefaultInputs(batch_tool) :
          /\ tasks' = [tasks EXCEPT ![b].pc = "loop", ![b].init = r,
                                    ![b].input = <<in>>]
          /\ Send(b, IF r = "Ok" THEN <<>>
                     ELSE <<Message("SetInfobar", b, 0, "error")>>)
TaskInitDone(b) ==
    /\ runner = "gui"
    /\ tasks[b].pc = "probing"
    /\ \E r \in InitResult :
          IF r = "Ok"
          THEN /\ \E in \in DefaultInputs(batch_tool) :
                     tasks' = [tasks EXCEPT ![b].pc = "loop", ![b].init = r,
                                            ![b].input = <<in>>]
               /\ Send(b, <<>>)
          ELSE LET ms == <<Message("SetInfobar", b, 0, "error"),
                           Message("TaskFinished", b, 0, "false")>>
               IN  /\ tasks' = [tasks EXCEPT ![b].pc = "finished",
                                             ![b].init = r,
                                             ![b].sent = @ \o ms]
                   /\ Send(b, ms)

ProcessIssueWhileSleeping(b) ==
    /\ runner = "gui"
    /\ tasks[b].pc \in {"loop", "sleeping"}
    /\ tasks[b].k <= keywords
    /\ LET k == tasks[b].k
           in == set_keyword(reset(batch_tool, tasks[b].input[1]), k)
           ms == <<Message("SetInfobar", b, k, "searching")>>
       IN  /\ tasks' = [tasks EXCEPT
                 ![b].pc = "searching",
                 ![b].input = <<in>>,
                 ![b].log = Append(@, Event("issue", k, in.count)),
                 ![b].sent = @ \o ms]
           /\ Send(b, ms)
\* process: the SetInfobar, input.reset(), input.set_keyword(keyword.clone()),
\* tool.search(&input) sends the request
ProcessIssue(b) ==
    /\ runner = "gui"
    /\ tasks[b].pc = "loop"
    /\ tasks[b].k <= keywords
    /\ LET k == tasks[b].k
           in == set_keyword(reset(batch_tool, tasks[b].input[1]), k)
           ms == <<Message("SetInfobar", b, k, "searching")>>
       IN  /\ tasks' = [tasks EXCEPT
                 ![b].pc = "searching",
                 ![b].input = <<in>>,
                 ![b].log = Append(@, Event("issue", k, in.count)),
                 ![b].sent = @ \o ms]
           /\ Send(b, ms)

\* process: tool.search(..).await; match stock { Ok(..) => .., Err(..) => .. }
ProcessReturn(b) ==
    /\ runner = "gui"
    /\ tasks[b].pc = "searching"
    /\ LET k == tasks[b].k
           ms == IF answers[k] = "Ok"
                 THEN <<Message("SetInfobar", b, k, "found"),
                        Message("AppendStock", b, k, "stock")>>
                 ELSE <<Message("ReportFailed", b, k, answers[k])>>
       IN  /\ tasks' = [tasks EXCEPT
                 ![b].pc = "sleeping",
                 ![b].log = Append(@, Event("return", k, 0)),
                 ![b].sent = @ \o ms]
           /\ Send(b, ms)

\* process: tokio::time::sleep(Duration::from_millis(delay)).await
ProcessWake(b) ==
    /\ runner = "gui"
    /\ tasks[b].pc = "sleeping"
    /\ tasks' = [tasks EXCEPT
          ![b].pc = "loop",
          ![b].k = @ + 1,
          ![b].log = Append(@, Event("slept", tasks[b].k, 0))]
    /\ Send(b, <<>>)

\* start_task: success = true; send.send(Message::TaskFinished(success))
TaskFinish(b) ==
    /\ runner = "gui"
    /\ tasks[b].pc = "loop"
    /\ tasks[b].k > keywords
    /\ LET ms == <<Message("TaskFinished", b, 0, "true")>>
       IN  /\ tasks' = [tasks EXCEPT ![b].pc = "finished",
                                     ![b].success = TRUE,
                                     ![b].sent = @ \o ms]
           /\ Send(b, ms)

NextBatch ==
    \/ Invoke
    \/ InvokeInitDone
    \/ SearchWithIssue
    \/ SearchWithReturn
    \/ SearchWithWake
    \/ InvokePrint
    \/ StartTask
    \/ StopTask
    \/ TaskFinished
    \/ ReportFailed
    \/ AppendStock
    \/ SetInfobar
    \/ \E b \in Running : TaskInit(b)
    \/ \E b \in Running : TaskInitDone(b)
    \/ \E b \in Running : ProcessIssue(b)
    \/ \E b \in Running : ProcessReturn(b)
    \/ \E b \in Running : ProcessWake(b)
    \/ \E b \in Running : TaskFinish(b)

SpecBatch == InitBatch /\ [][NextBatch]_vars


(***************************************************************************)
(* Claims on the batch runners                                             *)
(***************************************************************************)
Batches == DOMAIN tasks
\* the events of kind ev in the log of batch b, in order
EventsOf(b, ev) == SelectSeq(tasks[b].log, LAMBDA e : e.ev = ev)
\* the keywords batch b sent a search request for
Issued(b) == {EventsOf(b, "issue")[i].k : i \in 1..Len(EventsOf(b, "issue"))}
\* batch b ran to its end with a provider
RanToEnd(b) == tasks[b].pc = "finished" /\ tasks[b].init = "Ok"
StockLine(k) == [what |-> normalize("ShangHai", ShangHaiCode), k |-> k]
Printed(line) == \E i \in 1..Len(printed) : printed[i] = line
Sent(b, type, k) ==
    \E i \in 1..Len(tasks[b].sent) :
        tasks[b].sent[i].type = type /\ tasks[b].sent[i].k = k

\* the GUI half of C12: a batch that ran to its end sent a request for every
\* keyword and an AppendStock or a ReportFailed for each
GuiEveryKeywordAttempted ==
    runner = "gui" =>
        \A b \in Batches : RanToEnd(b) =>
            /\ Issued(b) = 1..keywords
            /\ \A k \in 1..keywords :
                  IF answers[k] = "Ok" THEN Sent(b, "AppendStock", k)
                  ELSE Sent(b, "ReportFailed", k)

\* the CLI half of C12: an invocation that got its provider and returned
\* sent a request for every keyword and printed the stock of every keyword
\* that has one
CliEveryKeywordAttempted ==
    runner = "cli" =>
        \A b \in Batches : RanToEnd(b) =>
            /\ Issued(b) = 1..keywords
            /\ \A k \in 1..keywords : answers[k] = "Ok" => Printed(StockLine(k))

\* C12: in a batch, the failure of one keyword's search does not abort the
\* rest: both runners attempt every later keyword, and the outcomes of the
\* keywords before and after the failure are delivered.
OrigC12_FailureDoesNotAbortTheBatch ==
    GuiEveryKeywordAttempted /\ CliEveryKeywordAttempted

\* C13: when the probe of init fails, init gives an error and no provider,
\* the probe was sent once, no search request is sent for any keyword, and
\* the batch ends reporting the failure: the GUI sends the error message and
\* then TaskFinished(false), the CLI returns the error with no stock printed.
ThmC13_FailedProbeEndsTheBatch ==
    \A b \in Batches : tasks[b].init \notin {None, "Ok"} =>
        /\ tasks[b].pc = "finished"
        /\ ~tasks[b].success
        /\ tasks[b].input = <<>>
        /\ tasks[b].log = <<Event("probe", 0, 0)>>
        /\ runner = "gui" =>
              tasks[b].sent = <<Message("SetInfobar", b, 0, "error"),
                                Message("TaskFinished", b, 0, "false")>>
        /\ runner = "cli" =>
              /\ ret = Err(tasks[b].init)
              /\ printed = <<[what |-> "count", k |-> keywords]>>

WitC13_FailureReportedThenFinished ==
    /\ runner = "gui" /\ keywords = 2
    /\ Latest = 1 /\ tasks[1].init = "ErrStatus"
    /\ chan = <<>> /\ task_handle = <<>>
    /\ infobar = [what |-> "error", k |-> 0]
    /\ tasks[1].aborted_by.by = None

\* the counters of the requests batch b sent, in order
Counters(b) ==
    [i \in 1..Len(EventsOf(b, "issue")) |-> EventsOf(b, "issue")[i].count]

\* C14: with the Sina input, every reset raises the counter by exactly one
\* and set_keyword leaves it alone: the counters of the successive requests
\* of a batch start one above the counter Input::default gave and go up by
\* one, so no two requests of a batch share a counter.
ThmC14_CountersGoUpByOne ==
    batch_tool = "Sina" =>
        \A b \in Batches :
            LET cs == Counters(b)
            IN  /\ cs # <<>> =>
                      /\ cs[1] \in {c + 1 : c \in Millis}
                      /\ tasks[b].input[1].count = cs[Len(cs)]
                /\ \A i \in 1..Len(cs) - 1 : cs[i + 1] = cs[i] + 1
                /\ \A i, j \in 1..Len(cs) : i # j => cs[i] # cs[j]
                /\ \A i \in 1..Len(cs) : EventsOf(b, "issue")[i].k = i

WitC14_TwoRequestsOneApart ==
    /\ batch_tool = "Sina" /\ 1 \in Batches
    /\ Len(Counters(1)) = 2
    /\ Counters(1)[2] = Counters(1)[1] + 1
    /\ tasks[1].input[1].key = 2

\* the i-th event of a batch: the probe, then for keyword 1, 2, ... the
\* request, its return and the end of the delay
ExpectedEvent(i) ==
    IF i = 1 THEN [ev |-> "probe", k |-> 0]
    ELSE [ev |-> CASE (i - 2) % 3 = 0 -> "issue"
                   [] (i - 2) % 3 = 1 -> "return"
                   [] (i - 2) % 3 = 2 -> "slept",
          k |-> ((i - 2) \div 3) + 1]

\* C15: keywords are resolved one after the other: at most one search
\* request is outstanding at any time, and the request for keyword k+1 is
\* sent only after the search for keyword k returned and the delay elapsed.
\* In the GUI this holds across StartTask and StopTask: no batch runs unless
\* its handle is held, so no two batches run at once.
ThmC15_OneRequestAtATime ==
    /\ Cardinality({b \in Batches : tasks[b].pc = "searching"}) <= 1
    /\ \A b \in Batches : \A i \in 1..Len(tasks[b].log) :
          /\ tasks[b].log[i].ev = ExpectedEvent(i).ev
          /\ tasks[b].log[i].k = ExpectedEvent(i).k
    /\ runner = "gui" =>
          /\ Cardinality(Running) <= 1
          /\ Running # {} => task_handle = <<Latest>> /\ Running = {Latest}

WitC15_SecondBatchSecondRequest ==
    /\ runner = "gui" /\ Latest = 2
    /\ tasks[2].pc = "searching" /\ tasks[2].k = 2
    /\ Len(tasks[2].log) = 5
    /\ answers[1] # "Ok"

\* C18: a TaskFinished message ends only the batch that sent it: a batch
\* started by a later StartTask is never aborted by the TaskFinished of an
\* earlier batch, and task_handle is held exactly while the latest batch is
\* neither finished nor stopped.
OrigC18_TaskFinishedEndsItsOwnBatch ==
    runner = "gui" =>
        /\ \A b \in Batches : tasks[b].aborted_by.by # "TaskFinished"
        /\ task_handle # <<>> => task_handle = <<Latest>>
        /\ Running # {} => task_handle # <<>>


(***************************************************************************)
(* SpecSoHu: SoHu::search_all (sohu.rs) from the response text on          *)
(***************************************************************************)
MaxBody == 4
MaxRows == 2
MaxColumns == 3

ErrParse == "ParseError"
ErrJson == "JsonError"
ErrFormat == "Invalid json format"

\* The body as the JSONP parser sees it: it tells "(" and ")" from every
\* other character and nothing else.
SoHuChars == {"(", ")", "a"}
SoHuTexts == UNION {[1..n -> SoHuChars] : n \in 0..MaxBody}

\* item.repeat_full() from offset i: the offset after the longest run of
\* characters that are neither "(" nor ")"
RECURSIVE RepeatItem(_, _)
RepeatItem(s, i) ==
    IF i <= Len(s) /\ s[i] \notin {"(", ")"} THEN RepeatItem(s, i + 1) ELSE i

\* item.repeat_full().then(item.repeat_full().quote("(", ")")), mapped to
\* the quoted slice
JsonpParser(s) ==
    LET open == RepeatItem(s, 1)
        close == RepeatItem(s, open + 1)
    IN  IF open > Len(s) \/ s[open] # "(" THEN Err(ErrParse)
        ELSE IF close > Len(s) \/ s[close] # ")" THEN Err(ErrParse)
        ELSE Ok(SubSeq(s, open + 1, close - 1))

\* serde_json values, as far as the row extraction tells them apart
JsonString(s) == [str |-> TRUE, s |-> s]
JsonNumber == [str |-> FALSE, s |-> <<>>]
JsonArray(cols) == [array |-> TRUE, cols |-> cols]
JsonObject == [array |-> FALSE, cols |-> <<>>]

\* A name as the service sends it, the display name mixed with ASCII
\* characters; row i has i non-ASCII characters in it.
MixedName(i) == [k \in 1..(2 * i) |-> IF k % 2 = 1 THEN NonAscii ELSE "a"]
AsciiName == <<"a", "0">>

\* What the element at position i of `result` can be: a value that is not an
\* array, or an array of 0..MaxColumns columns whose columns 1 and 2 are
\* strings or not.
SoHuRowsAt(i) ==
    {JsonObject}
    \cup {JsonArray([c \in 1..n |-> JsonString(<<"a">>)]) : n \in 0..2}
    \cup {JsonArray(<<JsonString(<<"a">>), code, name>>
                    \o [c \in 1..(n - 3) |-> JsonString(<<"0">>)]) :
             n \in 3..MaxColumns,
             code \in {JsonString(CodeAt(i)), JsonNumber},
             name \in {JsonString(MixedName(i)), JsonString(AsciiName),
                       JsonNumber}}

RECURSIVE SoHuRowListsOfLen(_)
SoHuRowListsOfLen(n) ==
    IF n = 0 THEN {<<>>}
    ELSE {Append(l, r) : l \in SoHuRowListsOfLen(n - 1), r \in SoHuRowsAt(n)}
SoHuRowLists == UNION {SoHuRowListsOfLen(n) : n \in 0..MaxRows}

\* char::is_ascii
is_ascii(c) == Utf8Len(c) = 1

StripAsciiKeepsAll(s) == s
\* name.chars().filter(|v| !v.is_ascii()).collect::<String>()
StripAscii(s) == SelectSeq(s, LAMBDA c : ~is_ascii(c))

SoHuOutput(code, name) == [code |-> code, name |-> name]

InitSoHu ==
    /\ pc = "unwrap"
    /\ sohu_text \in SoHuTexts
    /\ sohu_json = NoResult
    /\ sohu_array = <<>>
    /\ sohu_idx = 0
    /\ sohu_outputs = <<>>
    /\ sohu_result = NoResult
    /\ ClassifyIdle /\ SearchIdle /\ CfiIdle /\ SinaIdle /\ BatchIdle

otherVars == <<classifyVars, searchVars, cfiVars, sinaVars, batchVars>>

\* let json = CharsCtx::new(&text).ctor(&parser).map(|(_, a)| a)?;
SoHuUnwrap ==
    /\ pc = "unwrap"
    /\ sohu_json' = JsonpParser(sohu_text)
    /\ IF sohu_json'.ok
       THEN pc' = "parse" /\ UNCHANGED sohu_result
       ELSE pc' = "done" /\ sohu_result' = sohu_json'
    /\ UNCHANGED <<sohu_text, sohu_array, sohu_idx, sohu_outputs, otherVars>>

\* serde_json::Value::from_str(json)?; json.get("result").and_then(|v|
\* v.as_array()).ok_or_else(..)?; let mut outputs = vec![];
SoHuParse ==
    /\ pc = "parse"
    /\ \/ /\ sohu_result' = Err(ErrJson)
          /\ pc' = "done"
          /\ UNCHANGED <<sohu_array, sohu_idx>>
       \/ /\ sohu_result' = Err(ErrFormat)
          /\ pc' = "done"
          /\ UNCHANGED <<sohu_array, sohu_idx>>
       \/ /\ sohu_array' \in SoHuRowLists
          /\ sohu_idx' = 1
          /\ pc' = "rows"
          /\ UNCHANGED sohu_result
    /\ UNCHANGED <<sohu_text, sohu_json, sohu_outputs, otherVars>>

\* one iteration of `for item in array`
SoHuRow ==
    /\ pc = "rows"
    /\ sohu_idx <= Len(sohu_array)
    /\ LET item == sohu_array[sohu_idx]
       IN  sohu_outputs' =
              IF /\ item.array
                 /\ Len(item.cols) >= 3
                 /\ item.cols[2].str
                 /\ item.cols[3].str
              THEN Append(sohu_outputs,
                          SoHuOutput(item.cols[2].s, StripAscii(item.cols[3].s)))
              ELSE sohu_outputs
    /\ sohu_idx' = sohu_idx + 1
    /\ UNCHANGED <<pc, sohu_text, sohu_json, sohu_array, sohu_result,
                   otherVars>>

\* Ok(outputs)
SoHuReturn ==
    /\ pc = "rows"
    /\ sohu_idx > Len(sohu_array)
    /\ sohu_result' = Ok(sohu_outputs)
    /\ pc' = "done"
    /\ UNCHANGED <<sohu_text, sohu_json, sohu_array, sohu_idx, sohu_outputs,
                   otherVars>>

NextSoHu == SoHuUnwrap \/ SoHuParse \/ SoHuRow \/ SoHuReturn

SpecSoHu == InitSoHu /\ [][NextSoHu]_vars

(***************************************************************************)
(* Claims on SoHu::search_all                                              *)
(***************************************************************************)
Candidate(row) == SoHuOutput(row.cols[2].s, StripAscii(row.cols[3].s))
CandidatesOf(rows) == [i \in 1..Len(rows) |-> Candidate(rows[i])]
HasThreeColumns(row) == row.array /\ Len(row.cols) >= 3
HasCodeAndName(row) ==
    HasThreeColumns(row) /\ row.cols[2].str /\ row.cols[3].str

\* C16 as stated: the candidates returned are, in order, exactly those of
\* the rows of `result` that have at least 3 columns, with column[1] as the
\* code and column[2] without its ASCII characters as the name.
OrigC16_EveryRowOfThreeColumnsKept ==
    (pc = "done" /\ sohu_result.ok) =>
        sohu_result.val = CandidatesOf(SelectSeq(sohu_array, HasThreeColumns))

\* C16, amended: the candidates returned are, in order, exactly those of the
\* rows of `result` that are arrays of at least 3 columns whose column[1] and
\* column[2] are both JSON strings, with column[1] unchanged as the code and
\* column[2] without its ASCII characters as the name; every other row gives
\* no candidate, and no emitted name contains an ASCII character.
ThmC16_RowsWithStringCodeAndNameKept ==
    (pc = "done" /\ sohu_result.ok) =>
        /\ sohu_result.val
              = CandidatesOf(SelectSeq(sohu_array, HasCodeAndName))
        /\ \A i \in 1..Len(sohu_result.val) :
              \A k \in 1..Len(sohu_result.val[i].name) :
                  sohu_result.val[i].name[k] = NonAscii

WitC16_NumberColumnSkippedNameStripped ==
    /\ pc = "done" /\ sohu_result.ok
    /\ Len(sohu_array) = 2
    /\ HasThreeColumns(sohu_array[1]) /\ ~sohu_array[1].cols[2].str
    /\ HasCodeAndName(sohu_array[2])
    /\ sohu_array[2].cols[3].s = MixedName(2)
    /\ sohu_result.val = <<SoHuOutput(CodeAt(2), NameAt(2))>>

Opens == {i \in 1..Len(sohu_text) : sohu_text[i] = "("}
Closes == {i \in 1..Len(sohu_text) : sohu_text[i] = ")"}
FirstOpen == CHOOSE i \in Opens : \A j \in Opens : i <= j
LastClose == CHOOSE i \in Closes : \A j \in Closes : j <= i

\* C17: for every body with a "(" before a ")", the text handed to the JSON
\* parser is exactly the text between the first "(" and the last ")", also
\* when that text itself contains parentheses.
OrigC17_FirstOpenToLastClose ==
    (pc # "unwrap" /\ \E i \in Opens : \E j \in Closes : i < j) =>
        sohu_json = Ok(SubSeq(sohu_text, FirstOpen + 1, LastClose - 1))

====
